---- MODULE Spec2Model ----
\* tini: ordered hash map, line parser, document assembly and serialization.
\* Text is modelled as a sequence of one-character strings, so that
\* serialization and parsing work on characters as the Rust code does.
EXTENDS Integers, Sequences, FiniteSets, TLC

VARIABLES ini, last, nops, how, added

vars == <<ini, last, nops, how, added>>

\* ---------------------------------------------------------------- bounds
\* number of chained calls made on the document after its construction
MaxOps == 4
\* number of lines of an input text handed to from_buffer
MaxLines == 4
\* number of chained calls made on a document that was parsed from text
MaxParsedOps == 2
\* number of values of a document that a loop over iter_mut rewrites
MaxVisits == 3
\* number of characters of a line handed to parse_line on its own
MaxLineLen == 5
\* number of characters of the key and of the value of an assignment line
\* handed to parse_line
MaxKeyLen == 2
MaxValueLen == 4

\* ---------------------------------------------------------------- Option
None == [some |-> FALSE]

Some(v) == [some |-> TRUE, value |-> v]

\* ---------------------------------------------------------------- helpers
Range(s) == {s[i] : i \in 1..Len(s)}

Min(S) == CHOOSE m \in S : \A n \in S : m <= n

RECURSIVE Concat(_)
\* std: concatenation of a sequence of strings
Concat(ss) == IF ss = <<>> THEN <<>> ELSE Head(ss) \o Concat(Tail(ss))

\* ---------------------------------------------------------------- OrderedHashMap
\* base is a function (its DOMAIN is the key set), keys the order sequence.
new == [base |-> <<>>, keys |-> <<>>]

contains_key(m, k) == k \in DOMAIN m.base

get(m, k) == IF k \in DOMAIN m.base THEN Some(m.base[k]) ELSE None

\* HashMap::insert / HashMap::remove on the lookup table
base_insert(b, k, v) == [x \in DOMAIN b \cup {k} |-> IF x = k THEN v ELSE b[x]]

base_remove(b, k) == [x \in DOMAIN b \ {k} |-> b[x]]

\* insert that records the key on every call
insert_push_always(m, k, v) ==
    [map |-> [base |-> base_insert(m.base, k, v), keys |-> Append(m.keys, k)],
     ret |-> get(m, k)]

\* insert that moves a key it already holds to the back of the order
insert_to_back(m, k, v) ==
    [map |-> [base |-> base_insert(m.base, k, v),
              keys |-> Append(SelectSeq(m.keys, LAMBDA x : x # k), k)],
     ret |-> get(m, k)]

insert(m, k, v) ==
    LET ks == IF ~contains_key(m, k) THEN Append(m.keys, k) ELSE m.keys
    IN  [map |-> [base |-> base_insert(m.base, k, v), keys |-> ks],
         ret |-> get(m, k)]

\* Iterator::position: 1-based here, 0 when absent
position(ks, k) ==
    IF k \in Range(ks) THEN Min({i \in 1..Len(ks) : ks[i] = k}) ELSE 0

\* Vec::remove instead: the elements behind the removed one shift down
shift_remove(ks, index) ==
    [i \in 1..(Len(ks) - 1) |-> IF i < index THEN ks[i] ELSE ks[i + 1]]

\* Vec::swap_remove: the last element takes the place of the removed one
swap_remove(ks, index) ==
    [i \in 1..(Len(ks) - 1) |-> IF i = index THEN ks[Len(ks)] ELSE ks[i]]

\* remove that forgets the lookup table
remove_keys_only(m, k) ==
    LET index == position(m.keys, k)
    IN  IF index # 0
        THEN [map |-> [base |-> m.base, keys |-> swap_remove(m.keys, index)],
              ret |-> get(m, k)]
        ELSE [map |-> m, ret |-> None]

\* remove that forgets the key order
remove_base_only(m, k) ==
    LET index == position(m.keys, k)
    IN  IF index # 0
        THEN [map |-> [base |-> base_remove(m.base, k), keys |-> m.keys],
              ret |-> get(m, k)]
        ELSE [map |-> m, ret |-> None]

\* remove that takes the last key off the order when the key is absent
remove_drops_last(m, k) ==
    LET index == position(m.keys, k)
    IN  IF index # 0
        THEN [map |-> [base |-> base_remove(m.base, k),
                       keys |-> swap_remove(m.keys, index)],
              ret |-> get(m, k)]
        ELSE [map |-> [base |-> m.base, keys |-> SubSeq(m.keys, 1, Len(m.keys) - 1)],
              ret |-> None]

remove(m, k) ==
    LET index == position(m.keys, k)
    IN  IF index # 0
        THEN [map |-> [base |-> base_remove(m.base, k),
                       keys |-> swap_remove(m.keys, index)],
              ret |-> get(m, k)]
        ELSE [map |-> m, ret |-> None]

\* entry(): pushes the key when absent, then hands out the table's entry
entry(m, k) ==
    [map |-> [base |-> m.base,
              keys |-> IF ~contains_key(m, k) THEN Append(m.keys, k) ELSE m.keys],
     key |-> k]

\* or_insert_with that stores the default over a value already there
or_insert_always(e, default) ==
    [base |-> base_insert(e.map.base, e.key, default), keys |-> e.map.keys]

\* Entry::or_insert_with on the entry handed out by entry()
or_insert_with(e, default) ==
    IF e.key \in DOMAIN e.map.base
    THEN e.map
    ELSE [base |-> base_insert(e.map.base, e.key, default), keys |-> e.map.keys]

keys(m) == m.keys

RECURSIVE iter_from(_, _)
\* Iter::next: the next key of the order sequence, looked up in the table;
\* a key missing from the table ends the iteration
iter_from(m, i) ==
    IF i > Len(m.keys) THEN <<>>
    ELSE IF m.keys[i] \in DOMAIN m.base
         THEN <<[key |-> m.keys[i], value |-> m.base[m.keys[i]]]>> \o iter_from(m, i + 1)
         ELSE <<>>

iter(m) == iter_from(m, 1)

\* ---------------------------------------------------------------- Ini
\* a constructor that selects a section of its own
Ini_new_named == [document |-> new, last_section_name |-> <<"a">>, empty_section |-> new]

Ini_new == [document |-> new, last_section_name |-> <<>>, empty_section |-> new]

section_creating(self, name) ==
    [self EXCEPT !.last_section_name = name,
                 !.document = or_insert_with(entry(self.document, name), new)]

section(self, name) == [self EXCEPT !.last_section_name = name]

\* document.entry(last_section_name).or_insert_with(Section::new): the
\* section item() inserts into
entry_section(self) ==
    or_insert_with(entry(self.document, self.last_section_name), new)
        .base[self.last_section_name]

\* item that files its pair in the empty section as well
item_into_empty(self, name, value) ==
    LET doc == or_insert_with(entry(self.document, self.last_section_name), new)
        sec == insert(entry_section(self), name, value)
    IN  [self EXCEPT !.document =
            [doc EXCEPT !.base = base_insert(doc.base, self.last_section_name, sec.map)],
                     !.empty_section = insert(self.empty_section, name, value).map]

item(self, name, value) ==
    LET doc == or_insert_with(entry(self.document, self.last_section_name), new)
        sec == insert(entry_section(self), name, value)
    IN  [self EXCEPT !.document =
            [doc EXCEPT !.base = base_insert(doc.base, self.last_section_name, sec.map)]]

RECURSIVE join(_, _)
\* vector.iter().map(|v| v.to_string()).collect::<Vec<_>>().join(sep)
join(vector, sep) ==
    IF vector = <<>> THEN <<>>
    ELSE IF Len(vector) = 1 THEN Head(vector)
    ELSE Head(vector) \o sep \o join(Tail(vector), sep)

item_vec_with_sep(self, name, vector, sep) ==
    LET vector_data == join(vector, sep)
        doc == or_insert_with(entry(self.document, self.last_section_name), new)
        sec == insert(entry_section(self), name, vector_data)
    IN  [self EXCEPT !.document =
            [doc EXCEPT !.base = base_insert(doc.base, self.last_section_name, sec.map)]]

item_vec(self, name, vector) == item_vec_with_sep(self, name, vector, <<",", " ">>)

RECURSIVE items(_, _)
\* for (k, v) in items { self = self.item(k.to_string(), v.to_string()); }
items(self, its) ==
    IF its = <<>> THEN self
    ELSE items(item(self, Head(its)[1], Head(its)[2]), Tail(its))

clear_keep_name(self) ==
    IF contains_key(self.document, self.last_section_name)
    THEN [self EXCEPT !.document.base[self.last_section_name] = new]
    ELSE self

clear_all(self) == [self EXCEPT !.document = new]

clear(self) ==
    [self EXCEPT !.document = remove(self.document, self.last_section_name).map]

erase_last_key_drops_section(self, key) ==
    IF contains_key(self.document, self.last_section_name)
    THEN LET sec == remove(self.document.base[self.last_section_name], key).map
         IN  IF sec.keys = <<>>
             THEN [self EXCEPT !.document = remove(self.document, self.last_section_name).map]
             ELSE [self EXCEPT !.document.base[self.last_section_name] = sec]
    ELSE self

erase_everywhere(self, key) ==
    [self EXCEPT !.document.base =
        [s \in DOMAIN self.document.base |-> remove(self.document.base[s], key).map]]

erase(self, key) ==
    IF contains_key(self.document, self.last_section_name)
    THEN [self EXCEPT !.document.base[self.last_section_name] =
              remove(self.document.base[self.last_section_name], key).map]
    ELSE self

\* what a lookup would hand out if absence were answered with a default
get_raw_or_default(self, sec, key) ==
    LET s == get(self.document, sec)
    IN  IF s.some /\ get(s.value, key).some THEN get(s.value, key) ELSE Some(<<>>)

\* document.get(section).and_then(|s| s.get(key))
get_raw(self, sec, key) ==
    LET s == get(self.document, sec)
    IN  IF s.some THEN get(s.value, key) ELSE None

\* get::<String>: get_raw, then String::from_str, which takes every text as
\* it is
Ini_get(self, sec, key) == get_raw(self, sec, key)

section_iter(self, name) ==
    IF contains_key(self.document, name)
    THEN iter(self.document.base[name])
    ELSE iter(self.empty_section)

\* hash_map::IterMut over a mutant table that leaves out the entry it would
\* visit last
base_iter_mut_skip(base) ==
    {SubSeq(f, 1, Len(f) - 1) :
        f \in {g \in [1..Cardinality(DOMAIN base) -> DOMAIN base] :
                  \A i, j \in DOMAIN g : g[i] = g[j] => i = j}}

\* hash_map::IterMut: every entry of the table once, in an order that the
\* hasher decides; all orders are possible
base_iter_mut(base) ==
    {f \in [1..Cardinality(DOMAIN base) -> DOMAIN base] :
        \A i, j \in DOMAIN f : f[i] = f[j] => i = j}

\* OrderedHashMap::iter_mut: the table's own iterator, not the key order
iter_mut(m) == base_iter_mut(m.base)

RECURSIVE visits(_, _)
\* the (section, key) pairs in the order in which the loops
\* for (_, it) in ini.iter_mut() { for (_, value) in it { .. } } reach them,
\* for the sections taken in the order so
visits(self, so) ==
    IF so = <<>> THEN {<<>>}
    ELSE {[i \in 1..Len(ko) |-> <<Head(so), ko[i]>>] \o rest :
            ko \in iter_mut(self.document.base[Head(so)]),
            rest \in visits(self, Tail(so))}

\* Ini::iter_mut with SectionIterMut over each section
Ini_iter_mut(self) == UNION {visits(self, so) : so \in iter_mut(self.document)}

\* Ini::iter: pairs of section name and iterator over its entries
Ini_iter(self) ==
    LET it == iter(self.document)
    IN  [i \in 1..Len(it) |-> [name |-> it[i].key, section |-> iter(it[i].value)]]

\* String::pop: drops the last character, nothing on an empty string
pop(s) == IF s = <<>> THEN s ELSE SubSeq(s, 1, Len(s) - 1)

fmt_section(e) ==
    <<"[">> \o e.name \o <<"]", "\n">>
    \o Concat([j \in 1..Len(e.section) |->
                 e.section[j].key \o <<" ", "=", " ">> \o e.section[j].value \o <<"\n">>])
    \o <<"\n">>

\* Display that drops one trailing character only
to_string_pop_once(self) ==
    LET it == Ini_iter(self)
        buffer == Concat([i \in 1..Len(it) |-> fmt_section(it[i])])
    IN  pop(buffer)

\* impl Display for Ini
to_string(self) ==
    LET it == Ini_iter(self)
        buffer == Concat([i \in 1..Len(it) |-> fmt_section(it[i])])
    IN  pop(pop(buffer))

to_buffer(self) == to_string(self)

\* a HashMap as it lies in memory: its entries in the order h in which its
\* hasher makes it enumerate them
table(base, h) == [i \in 1..Len(h) |-> [key |-> h[i], value |-> base[h[i]]]]

\* HashMap::get_key_value on such a table
get_key_value(t, k) ==
    IF \E i \in 1..Len(t) : t[i].key = k
    THEN Some(t[CHOOSE i \in 1..Len(t) : t[i].key = k])
    ELSE None

\* iteration that enumerates the table itself, as self.base.iter() would
iter_in_table_order(m, h) == table(m.base, h)

RECURSIVE iter_hashed_from(_, _, _)
iter_hashed_from(m, h, i) ==
    IF i > Len(m.keys) THEN <<>>
    ELSE LET kv == get_key_value(table(m.base, h), m.keys[i])
         IN  IF kv.some THEN <<kv.value>> \o iter_hashed_from(m, h, i + 1) ELSE <<>>

\* OrderedHashMap::iter and Iter::next over a table that enumerates in the
\* order h: the keys come from the key vector, the table is asked by key
iter_hashed(m, h) == iter_hashed_from(m, h, 1)

\* impl Display for Ini, run with the document's table enumerating in the
\* order hd and the table of section s in the order hs[s]
to_string_hashed(self, hd, hs) ==
    LET it == iter_hashed(self.document, hd)
        buffer == Concat([i \in 1..Len(it) |->
                     fmt_section([name |-> it[i].key,
                                  section |-> iter_hashed(it[i].value, hs[it[i].key])])])
    IN  pop(pop(buffer))

\* ---------------------------------------------------------------- parser
\* char::is_alphabetic, is_numeric and is_whitespace over the model's alphabet
is_alphabetic(c) ==
    c \in {"a", "b", "c", "d", "e", "f", "g", "h", "i", "j", "k", "l", "m",
           "n", "o", "p", "q", "r", "s", "t", "u", "v", "w", "x", "y", "z"}

is_numeric(c) == c \in {"0", "1", "2", "3", "4", "5", "6", "7", "8", "9"}

is_alphanumeric(c) == is_alphabetic(c) \/ is_numeric(c)

is_whitespace(c) == c \in {" ", "\t"}

\* a parser whose keys are letters and digits only
IDENT_none == {}

IDENT == {"_", ".", ",", ":", "(", ")", "{", "}", "-", "#", "@", "&", "*", "|"}

ValueChars == {".", "+", "-", "_", "/", "!"}

Parsed_Section(name) == [tag |-> "Section", name |-> name]

Parsed_Key(k, v) == [tag |-> "Key", key |-> k, value |-> v]

Parsed_Empty == [tag |-> "Empty"]

Parsed_Error(msg) == [tag |-> "Error", msg |-> msg]

\* the locals of parse_line; ret is set by an early return, brk by break
parse_start ==
    [state |-> "Init", l |-> <<>>, r |-> <<>>, sec |-> <<>>, ws |-> <<>>,
     ret |-> None, brk |-> FALSE]

\* a parser that lets a line start with "=" and reads on for a value
incorrect_char_but_eq(p, c) ==
    IF p.state = "Init" /\ c = "=" THEN [p EXCEPT !.state = "WhitespaceBeforeValue"]
    ELSE [p EXCEPT !.ret = Some(Parsed_Error(<<"incorrect char", c, p.state>>))]

incorrect_char(p, c) ==
    [p EXCEPT !.ret = Some(Parsed_Error(<<"incorrect char", c, p.state>>))]

\* the body of the loop over the characters: one match arm per state
parse_char(p, c) ==
    CASE p.state = "Init" ->
           IF is_alphabetic(c) \/ c \in IDENT
           THEN [p EXCEPT !.l = Append(p.l, c), !.state = "ReadKey"]
           ELSE IF c = "[" THEN [p EXCEPT !.state = "ReadSection"]
           ELSE IF is_whitespace(c) THEN p
           ELSE IF c = ";" THEN [p EXCEPT !.state = "Empty"]
           ELSE incorrect_char(p, c)
      [] p.state = "ReadKey" ->
           IF is_alphanumeric(c) \/ c \in IDENT
           THEN [p EXCEPT !.l = Append(p.l, c)]
           ELSE IF is_whitespace(c) THEN [p EXCEPT !.state = "WhitespaceAfterKey"]
           ELSE incorrect_char(p, c)
      [] p.state = "WhitespaceAfterKey" ->
           IF c = "=" THEN [p EXCEPT !.state = "WhitespaceBeforeValue"]
           ELSE IF is_whitespace(c) THEN p
           ELSE incorrect_char(p, c)
      [] p.state = "WhitespaceBeforeValue" ->
           IF is_alphanumeric(c)
           THEN [p EXCEPT !.r = Append(p.r, c), !.state = "ReadValue"]
           ELSE IF is_whitespace(c) THEN p
           ELSE incorrect_char(p, c)
      [] p.state = "ReadValue" ->
           IF is_alphanumeric(c) \/ c \in ValueChars
           THEN [p EXCEPT !.r = Append(p.r, c)]
           ELSE IF is_whitespace(c) \/ c = ","
           THEN [p EXCEPT !.state = "WhitespaceAfterValue", !.ws = Append(p.ws, c)]
           ELSE incorrect_char(p, c)
      [] p.state = "WhitespaceAfterValue" ->
           IF is_alphanumeric(c)
           THEN [p EXCEPT !.r = (p.r \o p.ws) \o <<c>>, !.ws = <<>>, !.state = "ReadValue"]
           ELSE IF c = ";" THEN [p EXCEPT !.state = "Key", !.brk = TRUE]
           ELSE IF is_whitespace(c) THEN [p EXCEPT !.ws = Append(p.ws, c)]
           ELSE incorrect_char(p, c)
      [] p.state = "ReadSection" ->
           IF is_alphanumeric(c) \/ c \in IDENT
           THEN [p EXCEPT !.sec = Append(p.sec, c)]
           ELSE IF c = "]" THEN [p EXCEPT !.state = "WhitespaceAfterBracket"]
           ELSE incorrect_char(p, c)
      [] p.state = "WhitespaceAfterBracket" ->
           IF c = ";" THEN [p EXCEPT !.state = "Section"]
           ELSE IF is_whitespace(c) THEN p
           ELSE incorrect_char(p, c)
      [] OTHER -> p

RECURSIVE parse_chars(_, _, _)
\* for c in s.chars(): stops at an early return, at break, or at the end
parse_chars(s, i, p) ==
    IF i > Len(s) \/ p.ret.some \/ p.brk THEN p
    ELSE parse_chars(s, i + 1, parse_char(p, s[i]))

\* a tail that takes a header without its closing bracket for a section
final_state_open_section(state) ==
    CASE state \in {"WhitespaceAfterValue", "ReadValue"} -> "Key"
      [] state \in {"WhitespaceAfterBracket", "ReadSection"} -> "Section"
      [] state = "Init" -> "Empty"
      [] OTHER -> state

\* a tail that takes a key without "=" and value for a pair
final_state_bare_key(state) ==
    CASE state \in {"WhitespaceAfterValue", "ReadValue", "ReadKey", "WhitespaceAfterKey"}
           -> "Key"
      [] state = "WhitespaceAfterBracket" -> "Section"
      [] state = "Init" -> "Empty"
      [] OTHER -> state

\* the state after the loop, as the first match of parse_line's tail maps it
final_state(state) ==
    CASE state \in {"WhitespaceAfterValue", "ReadValue"} -> "Key"
      [] state = "WhitespaceAfterBracket" -> "Section"
      [] state = "Init" -> "Empty"
      [] OTHER -> state

\* a parser that hands out the value with the whitespace read behind it
parse_line_keep_ws(s) ==
    LET p == parse_chars(s, 1, parse_start)
        state == final_state(p.state)
    IN  IF p.ret.some THEN p.ret.value
        ELSE CASE state = "Key" -> Parsed_Key(p.l, p.r \o p.ws)
               [] state = "Section" -> Parsed_Section(p.sec)
               [] state = "Empty" -> Parsed_Empty
               [] OTHER -> Parsed_Error(<<"Incorrect expression">>)

parse_line(s) ==
    LET p == parse_chars(s, 1, parse_start)
        state == final_state(p.state)
    IN  IF p.ret.some THEN p.ret.value
        ELSE CASE state = "Key" -> Parsed_Key(p.l, p.r)
               [] state = "Section" -> Parsed_Section(p.sec)
               [] state = "Empty" -> Parsed_Empty
               [] OTHER -> Parsed_Error(<<"Incorrect expression">>)

\* ---------------------------------------------------------------- from_string
Ok(v) == [tag |-> "Ok", value |-> v]

Err(e) == [tag |-> "Err", error |-> e]

\* the text of a line in front of its first ";" (all of it when it has none)
BeforeComment(s) ==
    IF ";" \in Range(s) THEN SubSeq(s, 1, Min({i \in 1..Len(s) : s[i] = ";"}) - 1)
    ELSE s

RECURSIVE TrimStart(_)
TrimStart(s) == IF s # <<>> /\ is_whitespace(Head(s)) THEN TrimStart(Tail(s)) ELSE s

RECURSIVE TrimEnd(_)
TrimEnd(s) ==
    IF s # <<>> /\ is_whitespace(s[Len(s)]) THEN TrimEnd(SubSeq(s, 1, Len(s) - 1)) ELSE s

Trim(s) == TrimEnd(TrimStart(s))

\* what a line says once its comment and the surrounding whitespace are gone
Content(line) == Trim(BeforeComment(line))

\* the text in front of the first "=" and the text behind it
BeforeEq(s) == SubSeq(s, 1, Min({i \in 1..Len(s) : s[i] = "="}) - 1)

AfterEq(s) == SubSeq(s, Min({i \in 1..Len(s) : s[i] = "="}) + 1, Len(s))

\* the ParseError variant for a line that was rejected: IncorrectSection for
\* a line that opens a header, EmptyKey for an assignment without a key,
\* IncorrectSyntax for anything else
error_kind(line) ==
    LET c == Content(line)
    IN  IF c # <<>> /\ c[1] = "[" THEN "IncorrectSection"
        ELSE IF "=" \in Range(c) /\ Trim(BeforeEq(c)) = <<>> THEN "EmptyKey"
        ELSE "IncorrectSyntax"

\* parse_line(&line, index) as lib.rs calls it: the line's Parsed result, or
\* a ParseError that carries the number the caller passed
parse_line_indexed(line, index) ==
    LET p == parse_line(line)
    IN  IF p.tag = "Error" THEN Err([kind |-> error_kind(line), line |-> index])
        ELSE Ok(p)

RECURSIVE split_lines(_, _)
\* the pieces of s between "\n" characters; cur is the piece being read
split_lines(s, cur) ==
    IF s = <<>> THEN <<cur>>
    ELSE IF Head(s) = "\n" THEN <<cur>> \o split_lines(Tail(s), <<>>)
    ELSE split_lines(Tail(s), Append(cur, Head(s)))

\* str::lines: a final line ending is optional, so a trailing empty piece
\* is no line
lines(s) ==
    LET pieces == split_lines(s, <<>>)
    IN  IF pieces[Len(pieces)] = <<>> THEN SubSeq(pieces, 1, Len(pieces) - 1)
        ELSE pieces

RECURSIVE from_string_skip_errors(_, _, _)
\* a loop that steps over a malformed line instead of returning its error
from_string_skip_errors(ls, index, result) ==
    IF index >= Len(ls) THEN [tag |-> "Ok", value |-> result, read |-> index]
    ELSE LET parsed == parse_line_indexed(ls[index + 1], index)
         IN  from_string_skip_errors(ls, index + 1,
                IF parsed.tag = "Err" THEN result
                ELSE CASE parsed.value.tag = "Section" ->
                            section(result, parsed.value.name)
                       [] parsed.value.tag = "Key" ->
                            item(result, parsed.value.key, parsed.value.value)
                       [] OTHER -> result)

RECURSIVE from_string_blank_resets(_, _, _)
\* a loop in which a blank line ends the section above it
from_string_blank_resets(ls, index, result) ==
    IF index >= Len(ls) THEN [tag |-> "Ok", value |-> result, read |-> index]
    ELSE LET parsed == parse_line_indexed(ls[index + 1], index)
         IN  IF parsed.tag = "Err"
             THEN [tag |-> "Err", error |-> parsed.error, read |-> index + 1]
             ELSE from_string_blank_resets(ls, index + 1,
                    CASE parsed.value.tag = "Section" ->
                           section(result, parsed.value.name)
                      [] parsed.value.tag = "Key" ->
                           item(result, parsed.value.key, parsed.value.value)
                      [] OTHER -> section(result, <<>>))

RECURSIVE from_string_loop(_, _, _)
\* for (index, line) in string.lines().enumerate(): index counts from 0;
\* `?` returns the first error at once. read is the number of lines taken
\* from the iterator.
from_string_loop(ls, index, result) ==
    IF index >= Len(ls) THEN [tag |-> "Ok", value |-> result, read |-> index]
    ELSE LET parsed == parse_line_indexed(ls[index + 1], index)
         IN  IF parsed.tag = "Err"
             THEN [tag |-> "Err", error |-> parsed.error, read |-> index + 1]
             ELSE from_string_loop(ls, index + 1,
                    CASE parsed.value.tag = "Section" ->
                           section(result, parsed.value.name)
                      [] parsed.value.tag = "Key" ->
                           item(result, parsed.value.key, parsed.value.value)
                      [] OTHER -> result)

from_string(string) == from_string_loop(lines(string), 0, Ini_new)

from_buffer(buf) == from_string(buf)

\* ---------------------------------------------------------------- inputs
SectionNames == {<<"a">>, <<"b">>}

Keys == {<<"x">>, <<"y">>, <<"z">>}

Values == {<<"1">>, <<"1", " ", ";", "2">>}

LineSet ==
    { <<"[", "a", "]">>, <<"[", "b", "]">>,
      <<"x", " ", "=", " ", "1">>, <<"y", " ", "=", " ", "2">>,
      <<>>,
      <<"=", "2">> }

RECURSIVE Join(_)
Join(ls) ==
    IF ls = <<>> THEN <<>>
    ELSE IF Len(ls) = 1 THEN ls[1]
    ELSE (ls[1] \o <<"\n">>) \o Join(Tail(ls))

Texts == {Join(f) : f \in UNION {[1..n -> LineSet] : n \in 0..MaxLines}}

\* ---------------------------------------------------------------- history
\* added records, for the entries that are present, the order in which they
\* were added: secs the section names, keys[s] the keys of section s.
\* how records how the document came to be: parsed when it was read from
\* text, removed once clear or erase has been called on it.
NoneAdded == [secs |-> <<>>, keys |-> <<>>]

Without(seq, x) == SelectSeq(seq, LAMBDA y : y # x)

AddedItem(h, s, k) ==
    LET ks == IF s \in Range(h.secs) THEN h.keys[s] ELSE <<>>
    IN  [secs |-> IF s \in Range(h.secs) THEN h.secs ELSE Append(h.secs, s),
         keys |-> base_insert(h.keys, s, IF k \in Range(ks) THEN ks ELSE Append(ks, k))]

AddedClear(h, s) == [secs |-> Without(h.secs, s), keys |-> base_remove(h.keys, s)]

AddedErase(h, s, k) ==
    IF s \in Range(h.secs) THEN [h EXCEPT !.keys[s] = Without(h.keys[s], k)] ELSE h

\* the section a line of a text belongs to: the name on the nearest header
\* line above it, the empty name when there is none
HeaderAbove(ls, i) ==
    LET hs == {j \in 1..(i - 1) : parse_line(ls[j]).tag = "Section"}
    IN  IF hs = {} THEN <<>>
        ELSE parse_line(ls[CHOOSE j \in hs : \A n \in hs : n <= j]).name

RECURSIVE AddedLines(_, _, _)
AddedLines(ls, i, h) ==
    IF i > Len(ls) THEN h
    ELSE AddedLines(ls, i + 1,
           IF parse_line(ls[i]).tag = "Key"
           THEN AddedItem(h, HeaderAbove(ls, i), parse_line(ls[i]).key)
           ELSE h)

\* ---------------------------------------------------------------- actions
\* last records the most recent call: its name, its arguments and, under ret,
\* what the map operation behind it (or the call itself) returned.
\* a failed from_buffer returns no document to make calls on
Live == last.op = "from_buffer" => last.ret.tag = "Ok"

\* the number of chained calls the model follows
Budget == IF how.parsed THEN MaxParsedOps ELSE MaxOps

Init ==
    /\ ini = Ini_new
    /\ last = [op |-> "new"]
    /\ nops = 0
    /\ how = [parsed |-> FALSE, removed |-> FALSE]
    /\ added = NoneAdded

FromBuffer ==
    /\ last.op = "new"
    /\ \E text \in Texts :
         LET res == from_buffer(text)
         IN  /\ last' = [op |-> "from_buffer", text |-> text, ret |-> res]
             /\ IF res.tag = "Ok"
                THEN /\ ini' = res.value
                     /\ added' = AddedLines(lines(text), 1, NoneAdded)
                     /\ how' = [how EXCEPT !.parsed = TRUE]
                ELSE UNCHANGED <<ini, added, how>>
    /\ UNCHANGED nops

Section(name) ==
    /\ nops < Budget /\ Live
    /\ ini' = section(ini, name)
    /\ last' = [op |-> "section", name |-> name]
    /\ nops' = nops + 1
    /\ UNCHANGED <<how, added>>

Item(name, value) ==
    /\ nops < Budget /\ Live
    /\ ini' = item(ini, name, value)
    /\ last' = [op |-> "item", name |-> name, value |-> value,
                ret |-> insert(entry_section(ini), name, value).ret]
    /\ nops' = nops + 1
    /\ added' = AddedItem(added, ini.last_section_name, name)
    /\ UNCHANGED how

Clear ==
    /\ nops < Budget /\ Live
    /\ ini' = clear(ini)
    /\ last' = [op |-> "clear", ret |-> remove(ini.document, ini.last_section_name).ret]
    /\ nops' = nops + 1
    /\ added' = AddedClear(added, ini.last_section_name)
    /\ how' = [how EXCEPT !.removed = TRUE]

Erase(key) ==
    /\ nops < Budget /\ Live
    /\ ini' = erase(ini, key)
    /\ last' = [op |-> "erase", key |-> key,
                ret |-> IF contains_key(ini.document, ini.last_section_name)
                        THEN remove(ini.document.base[ini.last_section_name], key).ret
                        ELSE None]
    /\ nops' = nops + 1
    /\ added' = AddedErase(added, ini.last_section_name, key)
    /\ how' = [how EXCEPT !.removed = TRUE]

\* the bodies of the loops over iter_mut: the doc example's
\* *val = String::from("replaced"), the test's *value = format!("{}", v + 1),
\* and a body that writes the number of the visit
Closures == {"replace", "increment", "number"}

Digits == <<"1", "2", "3", "4", "5", "6", "7", "8", "9">>

\* value.parse::<i32>(): the number a text of one digit stands for
parse_i32(v) ==
    IF Len(v) = 1 /\ v[1] \in Range(Digits)
    THEN Some(CHOOSE d \in 1..9 : Digits[d] = v[1])
    ELSE None

\* what the loop body f writes over value v on the n-th visit
apply(f, n, v) ==
    CASE f = "replace" -> <<"1">>
      [] f = "increment" -> <<Digits[parse_i32(v).value + 1]>>
      [] f = "number" -> <<Digits[n]>>

\* value.parse().unwrap() panics on a value that is not a number
runs(f, self) ==
    f = "increment" =>
        \A s \in DOMAIN self.document.base :
            \A k \in DOMAIN self.document.base[s].base :
                /\ parse_i32(self.document.base[s].base[k]).some
                /\ parse_i32(self.document.base[s].base[k]).value < 9

RECURSIVE for_each(_, _, _, _)
\* the loops over iter_mut run with body f, the n-th visit and those behind it
for_each(self, visit, n, f) ==
    IF n > Len(visit) THEN self
    ELSE for_each(
           [self EXCEPT !.document.base[visit[n][1]].base[visit[n][2]] = apply(f, n, @)],
           visit, n + 1, f)

\* the number of values of the document
pairs(self) ==
    Cardinality(UNION {{<<s, k>> : k \in DOMAIN self.document.base[s].base} :
                          s \in DOMAIN self.document.base})

\* the collections handed to items(): two pairs in either order, a key
\* twice, and nothing
ItemLists ==
    {<< <<<<"x">>, <<"1">>>>, <<<<"y">>, <<"1">>>> >>,
     << <<<<"y">>, <<"1">>>>, <<<<"x">>, <<"1">>>> >>,
     << <<<<"z">>, <<"1">>>>, <<<<"z">>, <<"1", " ", ";", "2">>>> >>,
     <<>>}

RECURSIVE AddedItems(_, _, _)
AddedItems(h, s, its) ==
    IF its = <<>> THEN h ELSE AddedItems(AddedItem(h, s, Head(its)[1]), s, Tail(its))

Items(its) ==
    /\ nops < Budget /\ Live
    /\ ini' = items(ini, its)
    /\ last' = [op |-> "items", items |-> its]
    /\ nops' = nops + 1
    /\ added' = AddedItems(added, ini.last_section_name, its)
    /\ UNCHANGED how

\* The slices handed to item_vec, of no, one and two elements, and the key
\* they are stored under.
Vectors == {<<>>, << <<"1">> >>, << <<"1">>, <<"1">> >>}

VectorKeys == {<<"z">>}

ItemVec(name, vector) ==
    /\ nops < Budget /\ Live
    /\ ini' = item_vec(ini, name, vector)
    /\ last' = [op |-> "item_vec", name |-> name, vector |-> vector]
    /\ nops' = nops + 1
    /\ added' = AddedItem(added, ini.last_section_name, name)
    /\ UNCHANGED how

IterMut ==
    /\ nops < Budget /\ Live
    /\ pairs(ini) <= MaxVisits
    /\ \E f \in Closures : \E visit \in Ini_iter_mut(ini) :
         /\ runs(f, ini)
         /\ ini' = for_each(ini, visit, 1, f)
         /\ last' = [op |-> "iter_mut", closure |-> f, visit |-> visit]
    /\ nops' = nops + 1
    /\ UNCHANGED <<how, added>>

ToBuffer ==
    /\ nops < Budget /\ Live
    /\ last' = [op |-> "to_buffer", ret |-> to_buffer(ini)]
    /\ nops' = nops + 1
    /\ UNCHANGED <<ini, how, added>>

Next ==
    \/ FromBuffer
    \/ \E name \in SectionNames : Section(name)
    \/ \E name \in Keys, value \in Values : Item(name, value)
    \/ \E its \in ItemLists : Items(its)
    \/ \E name \in VectorKeys, vector \in Vectors : ItemVec(name, vector)
    \/ Clear
    \/ \E key \in Keys : Erase(key)
    \/ IterMut
    \/ ToBuffer

Spec == Init /\ [][Next]_vars

\* ---------------------------------------------------------------- lines
\* The line parser on its own: every line of up to MaxLineLen characters
\* over LineChars is handed to parse_line.
LineChars == {"a", "1", " ", "=", ";", "[", "]", "-"}

Lines == UNION {[1..n -> LineChars] : n \in 0..MaxLineLen}

ParseLine ==
    /\ last.op = "new"
    /\ \E line \in Lines :
         last' = [op |-> "parse_line", line |-> line, ret |-> parse_line(line)]
    /\ UNCHANGED <<ini, nops, how, added>>

LineSpec == Init /\ [][ParseLine]_vars

\* Assignment lines: every key of up to MaxKeyLen characters over KeyChars
\* and every value text of up to MaxValueLen characters over ValueTextChars,
\* written as "key = value", is handed to parse_line.
KeyChars == {"a", "1", "-", ":"}

ValueTextChars == {"a", " ", "-", ","}

KeyTexts == UNION {[1..n -> KeyChars] : n \in 1..MaxKeyLen}

ValueTexts == UNION {[1..n -> ValueTextChars] : n \in 1..MaxValueLen}

ParsePair ==
    /\ last.op = "new"
    /\ \E k \in KeyTexts : \E v \in ValueTexts :
         last' = [op |-> "parse_line", key |-> k, value |-> v,
                  line |-> (k \o <<" ", "=", " ">>) \o v,
                  ret |-> parse_line((k \o <<" ", "=", " ">>) \o v)]
    /\ UNCHANGED <<ini, nops, how, added>>

PairSpec == Init /\ [][ParsePair]_vars

\* ================================================================ claims
Sections == DOMAIN ini.document.base

SectionOf(s) == ini.document.base[s]

Selected == ini.last_section_name

IterKeys(m) == [i \in 1..Len(iter(m)) |-> iter(m)[i].key]

NoDuplicates(seq) == \A i, j \in 1..Len(seq) : seq[i] = seq[j] => i = j

KeysMatchBase(m) == NoDuplicates(m.keys) /\ Range(m.keys) = DOMAIN m.base

\* C1: in every reachable state the order sequence of the document and of
\* each of its sections holds no key twice, and holds exactly the keys of
\* the lookup table.
C1_KeysMatchBase ==
    /\ KeysMatchBase(ini.document)
    /\ \A s \in Sections : KeysMatchBase(SectionOf(s))

\* a clear that removed a section, after which another section is left
C1_Witness ==
    /\ last.op = "clear" /\ last.ret.some
    /\ Len(ini.document.keys) = 1
    /\ Len(SectionOf(ini.document.keys[1]).keys) >= 1

\* C2: after insertions only (re-insertions included), iterating a section
\* yields each of its keys once, in the order of first insertion.
C2_InsertionOrder ==
    ~how.removed =>
        \A s \in Sections :
            /\ IterKeys(SectionOf(s)) = added.keys[s]
            /\ NoDuplicates(IterKeys(SectionOf(s)))

\* three keys inserted, then the middle one inserted again
C2_Witness ==
    /\ ~how.removed /\ ~how.parsed
    /\ last.op = "item" /\ last.ret.some
    /\ Selected \in Sections
    /\ Len(SectionOf(Selected).keys) = 3
    /\ last.name = SectionOf(Selected).keys[2]

\* what insert(k, v) -> ret makes of a map
Inserted(before, after, k, v, ret) ==
    /\ after.base[k] = v
    /\ DOMAIN after.base = DOMAIN before.base \cup {k}
    /\ \A x \in DOMAIN before.base \ {k} : after.base[x] = before.base[x]
    /\ IF k \in DOMAIN before.base
       THEN after.keys = before.keys /\ ret = Some(before.base[k])
       ELSE after.keys = Append(before.keys, k) /\ ret = None

\* C3: insert of an absent key appends it to the order, stores the value and
\* returns None; insert of a present key replaces only its value and returns
\* the previous one, the order and the other values staying as they were.
C3_Insert ==
    [][last'.op = "item" =>
         Inserted(IF Selected \in Sections THEN SectionOf(Selected) ELSE new,
                  ini'.document.base[Selected],
                  last'.name, last'.value, last'.ret)]_vars

\* the first of two keys was given a new value that differs from the old one
C3_Witness ==
    /\ last.op = "item" /\ last.ret.some /\ last.ret.value # last.value
    /\ Len(SectionOf(Selected).keys) = 2
    /\ last.name = SectionOf(Selected).keys[1]
    /\ SectionOf(Selected).base[last.name] = last.value

\* C4: iteration visits the entries that are present in the order in which
\* they were added, both the sections of the document and the keys of each
\* section, also after removals.
C4_IterationInAddedOrder ==
    /\ IterKeys(ini.document) = added.secs
    /\ \A s \in Sections : IterKeys(SectionOf(s)) = added.keys[s]

\* what remove(k) -> ret makes of a map that holds k
Removed(before, after, k, ret) ==
    LET i == position(before.keys, k)
        n == Len(before.keys)
    IN  /\ ret = Some(before.base[k])
        /\ DOMAIN after.base = DOMAIN before.base \ {k}
        /\ \A x \in DOMAIN after.base : after.base[x] = before.base[x]
        /\ Len(after.keys) = n - 1
        /\ \A j \in 1..(n - 1) :
             after.keys[j] = IF j = i THEN before.keys[n] ELSE before.keys[j]

IsPrefix(p, q) == Len(p) <= Len(q) /\ SubSeq(q, 1, Len(p)) = p

\* the text "[a]", "x = 1", "[b]", "y = 2", "[a]", "z = 1", one per line
RedeclaredText ==
    Join(<< <<"[", "a", "]">>, <<"x", " ", "=", " ", "1">>,
            <<"[", "b", "]">>, <<"y", " ", "=", " ", "2">>,
            <<"[", "a", "]">>, <<"z", " ", "=", " ", "1">> >>)

\* C6: a section name that is declared again is not duplicated: the document
\* holds each name once; an item added to a section that exists leaves the
\* order of the sections as it was, keeps the section's earlier keys in front
\* of the new one and touches no other section; a text whose headers repeat
\* parses to one section per name, in the order the names first got a key
\* (the text [a] x [b] y [a] z gives the sections a, b with a holding x, z).
C6_Redeclare ==
    /\ from_string(RedeclaredText).tag = "Ok"
    /\ from_string(RedeclaredText).value.document.keys = <<<<"a">>, <<"b">>>>
    /\ from_string(RedeclaredText).value.document.base[<<"a">>].keys
          = <<<<"x">>, <<"z">>>>
    /\ [](/\ NoDuplicates(ini.document.keys)
          /\ last.op = "from_buffer" /\ last.ret.tag = "Ok" =>
                /\ ini.document.keys = added.secs
                /\ \A s \in Sections : SectionOf(s).keys = added.keys[s])
    /\ [][last'.op = "item" /\ Selected \in Sections =>
            /\ ini'.document.keys = ini.document.keys
            /\ IsPrefix(SectionOf(Selected).keys, ini'.document.base[Selected].keys)
            /\ \A s \in Sections \ {Selected} : ini'.document.base[s] = SectionOf(s)]_vars

\* a text gave two sections; the first was selected again and got a new key
\* behind the one it had
C6_Witness ==
    /\ how.parsed /\ nops = 2
    /\ last.op = "item" /\ ~last.ret.some
    /\ Len(ini.document.keys) = 2
    /\ Selected = ini.document.keys[1]
    /\ Len(SectionOf(Selected).keys) = 2
    /\ SectionOf(Selected).keys[2] = last.name

\* the 1-based numbers of the malformed lines of a text
Malformed(text) ==
    {i \in 1..Len(lines(text)) : parse_line(lines(text)[i]).tag = "Error"}

\* C7: parsing is fail-fast: when a text has a malformed line, from_buffer
\* returns the error of the first such line, has read no line behind it, and
\* returns no document.
C7_FailFast ==
    last.op = "from_buffer" /\ Malformed(last.text) # {} =>
        LET first == Min(Malformed(last.text))
        IN  /\ last.ret.tag = "Err"
            /\ last.ret.error = parse_line_indexed(lines(last.text)[first], first - 1).error
            /\ last.ret.read = first
            /\ "value" \notin DOMAIN last.ret

\* two malformed lines, a valid pair in front of the first of them
C7_Witness ==
    /\ last.op = "from_buffer" /\ last.ret.tag = "Err"
    /\ Malformed(last.text) = {2, 4}
    /\ parse_line(lines(last.text)[1]).tag = "Key"

\* C8: the number a ParseError carries is the 1-based number of the
\* offending line.
C8_OneBasedLine ==
    last.op = "from_buffer" /\ last.ret.tag = "Err" =>
        last.ret.error.line = Min(Malformed(last.text))

\* C9: a document built by section and item calls only is read back from its
\* own to_buffer text: parsing succeeds and gives the same sections, keys and
\* values in the same order.
C9_RoundTrip ==
    ~how.parsed /\ ~how.removed =>
        /\ from_string(to_buffer(ini)).tag = "Ok"
        /\ from_string(to_buffer(ini)).value.document = ini.document

\* the lines to_buffer is to emit: per section the header and the pairs, and
\* an empty line in front of every section but the first
ExpectedLines(self) ==
    Concat([i \in 1..Len(self.document.keys) |->
        LET name == self.document.keys[i]
            sec == self.document.base[name]
        IN  (IF i > 1 THEN <<<<>>>> ELSE <<>>)
            \o <<(<<"[">> \o name) \o <<"]">>>>
            \o [j \in 1..Len(sec.keys) |->
                  (sec.keys[j] \o <<" ", "=", " ">>) \o sec.base[sec.keys[j]]]])

\* C10: to_buffer is the lines `[name]` and `key = value` in section and key
\* order, one empty line between sections, joined by single newlines with
\* none after the last line; the empty document gives the empty string.
C10_ToBuffer ==
    /\ to_buffer(ini) = Join(ExpectedLines(ini))
    /\ last.op = "to_buffer" => last.ret = Join(ExpectedLines(ini))
    /\ ini.document.keys = <<>> => to_buffer(ini) = <<>>

\* to_buffer was called on a document of two sections
C10_Witness ==
    /\ last.op = "to_buffer"
    /\ Len(ini.document.keys) = 2
    /\ \A s \in Sections : Len(SectionOf(s).keys) >= 1

\* the names under which a text has at least one key line
KeyedNames(ls) ==
    {HeaderAbove(ls, i) : i \in {j \in 1..Len(ls) : parse_line(ls[j]).tag = "Key"}}

HeaderLine(name) == <<"[">> \o name \o <<"]">>

\* C11: naming a section does not create it: a section() call changes the
\* selected name and nothing else; a text's header lines select the name of
\* the last of them, and the document parsed from it holds exactly the names
\* that have a key line under them; the serialized text has a header line
\* exactly for the sections of the document; an item() call on a selected
\* name that has no section creates the section with that item alone.
C11_SectionDoesNotCreate ==
    /\ [](/\ last.op = "section" => Selected = last.name
          /\ last.op = "from_buffer" /\ last.ret.tag = "Ok" =>
                /\ Sections = KeyedNames(lines(last.text))
                /\ Selected = HeaderAbove(lines(last.text), Len(lines(last.text)) + 1)
          /\ last.op = "to_buffer" =>
                \A n \in SectionNames :
                    HeaderLine(n) \in Range(lines(last.ret)) <=> n \in Sections)
    /\ [][/\ last'.op = "section" =>
               /\ ini'.document = ini.document
               /\ ini'.empty_section = ini.empty_section
          /\ last'.op = "item" /\ Selected \notin Sections =>
               /\ DOMAIN ini'.document.base = Sections \cup {Selected}
               /\ ini'.document.base[Selected].keys = <<last'.name>>]_vars

\* a name was selected that the document, which holds another section,
\* does not hold
C11_Witness ==
    /\ last.op = "section" /\ Selected \notin Sections /\ Sections # {}
    /\ how.parsed

\* C12: looking up what is absent gives nothing: in every reachable
\* document get on a section name or a key it does not hold returns None, and
\* section_iter on a section name it does not hold yields no item; what is
\* present is handed out with its value.
C12_AbsenceIsNone ==
    \A s \in SectionNames \cup {<<>>} :
        /\ s \notin Sections => section_iter(ini, s) = <<>>
        /\ \A k \in Keys :
              Ini_get(ini, s, k) =
                  IF s \in Sections /\ k \in DOMAIN SectionOf(s).base
                  THEN Some(SectionOf(s).base[k]) ELSE None

\* a section was cleared while another remains: its keys and its items can
\* no longer be found, and the other section lacks one of the keys asked for
C12_Witness ==
    /\ last.op = "clear" /\ last.ret.some /\ Sections # {}
    /\ section_iter(ini, Selected) = <<>>
    /\ \E k \in DOMAIN last.ret.value.base : Ini_get(ini, Selected, k) = None
    /\ \E s \in Sections : \E k \in Keys : Ini_get(ini, s, k) = None

\* C13: clear() removes the selected section with all its keys and nothing
\* else: the selected name stays, the document holds the other sections with
\* the keys and values they had, and it is unchanged when it holds no section
\* of the selected name; an item() call that follows clear() leaves the
\* selected section holding that item alone.
C13_Clear ==
    [][/\ last'.op = "clear" =>
            /\ ini'.last_section_name = Selected
            /\ ini'.empty_section = ini.empty_section
            /\ DOMAIN ini'.document.base = Sections \ {Selected}
            /\ Range(ini'.document.keys) = Sections \ {Selected}
            /\ \A s \in Sections \ {Selected} : ini'.document.base[s] = SectionOf(s)
            /\ Selected \notin Sections => ini' = ini
       /\ last.op = "clear" /\ last'.op = "item" =>
            /\ ini'.document.base[Selected].keys = <<last'.name>>
            /\ ini'.document.base[Selected].base = [k \in {last'.name} |-> last'.value]
            /\ \A s \in Sections \ {Selected} : ini'.document.base[s] = SectionOf(s)]_vars

\* a section of two keys was cleared and another section is left
C13_Witness ==
    /\ last.op = "clear" /\ last.ret.some
    /\ Len(last.ret.value.keys) = 2
    /\ Sections # {} /\ Selected \notin Sections

\* C14: erase(key) removes that key from the selected section and nothing
\* else: the document keeps its sections, the selected section keeps its
\* other keys with their values, every other section is as it was, and the
\* document is unchanged when the selected section is absent or lacks the key.
C14_Erase ==
    [][last'.op = "erase" =>
         /\ ini'.last_section_name = Selected
         /\ ini'.empty_section = ini.empty_section
         /\ ini'.document.keys = ini.document.keys
         /\ DOMAIN ini'.document.base = Sections
         /\ \A s \in Sections \ {Selected} : ini'.document.base[s] = SectionOf(s)
         /\ Selected \in Sections =>
               /\ DOMAIN ini'.document.base[Selected].base
                     = DOMAIN SectionOf(Selected).base \ {last'.key}
               /\ \A k \in DOMAIN ini'.document.base[Selected].base :
                     ini'.document.base[Selected].base[k] = SectionOf(Selected).base[k]
         /\ (\/ Selected \notin Sections
             \/ last'.key \notin DOMAIN SectionOf(Selected).base) => ini' = ini]_vars

\* a key was erased from the selected section, which keeps another key,
\* while another section still holds a key of the same name
C14_Witness ==
    /\ last.op = "erase" /\ last.ret.some
    /\ SectionOf(Selected).keys # <<>>
    /\ \E s \in Sections \ {Selected} : last.key \in DOMAIN SectionOf(s).base

\* what a call of parse_line tells its caller: the parsed line, or that the
\* line is rejected
Outcome(p) == IF p.tag = "Error" THEN [tag |-> "Error"] ELSE p

IsKey(k) ==
    /\ k # <<>>
    /\ is_alphabetic(k[1]) \/ k[1] \in IDENT
    /\ \A i \in 1..Len(k) : is_alphanumeric(k[i]) \/ k[i] \in IDENT

\* a line that assigns to a key, with a blank between the key and the "="
Assigns(line) ==
    /\ "=" \in Range(Content(line))
    /\ IsKey(Trim(BeforeEq(Content(line))))
    /\ BeforeEq(Content(line)) # Trim(BeforeEq(Content(line)))

\* C16: an assignment whose value trims to empty is accepted: a line made
\* of a key, a blank, "=" and nothing but blanks up to its end or its comment
\* parses to that key with the empty string as its value.
C16_EmptyValue ==
    last.op = "parse_line" /\ Assigns(last.line)
        /\ Trim(AfterEq(Content(last.line))) = <<>>
        => last.ret = Parsed_Key(Trim(BeforeEq(Content(last.line))), <<>>)

\* a line that assigns to nothing: the text in front of its first "=" trims
\* to empty
KeyIsEmpty(line) ==
    "=" \in Range(Content(line)) /\ Trim(BeforeEq(Content(line))) = <<>>

OpenHeader(line) ==
    /\ Content(line) # <<>>
    /\ Content(line)[1] = "["
    /\ Content(line)[Len(Content(line))] # "]"

C19_ValueVerbatim ==
    last.op = "parse_line" /\ Assigns(last.line)
        /\ Trim(AfterEq(Content(last.line))) # <<>>
        => last.ret = Parsed_Key(Trim(BeforeEq(Content(last.line))),
                                 Trim(AfterEq(Content(last.line))))

\* a text that parse_line reads as a value when blanks surround it: it starts
\* with a letter or digit and goes on with letters, digits and ValueChars
IsValue(v) ==
    /\ v # <<>>
    /\ is_alphanumeric(v[1])
    /\ \A i \in 1..Len(v) : is_alphanumeric(v[i]) \/ v[i] \in ValueChars

\* C20: blanks around the key, the "=" and the value do not matter: a line
\* without a comment that holds a key, "=" and a value, with any number of
\* blanks (none included) in front, between and behind them, parses to that
\* key and that value.
C20_WhitespaceOptional ==
    last.op = "parse_line" /\ ";" \notin Range(last.line)
        /\ "=" \in Range(last.line)
        /\ IsKey(Trim(BeforeEq(last.line)))
        /\ IsValue(Trim(AfterEq(last.line)))
        => last.ret = Parsed_Key(Trim(BeforeEq(last.line)), Trim(AfterEq(last.line)))

RECURSIVE TrimBrackets(_)
\* a header without the bracket characters at its two ends, however many
TrimBrackets(s) ==
    IF s # <<>> /\ s[1] \in {"[", "]"} THEN TrimBrackets(Tail(s))
    ELSE IF s # <<>> /\ s[Len(s)] \in {"[", "]"} THEN TrimBrackets(SubSeq(s, 1, Len(s) - 1))
    ELSE s

\* a text that parse_line reads as a section name between "[" and "]"
IsSectionName(n) ==
    n # <<>> /\ \A i \in 1..Len(n) : is_alphanumeric(n[i]) \/ n[i] \in IDENT

\* C21: a header line keeps its name whatever the number of brackets around
\* it: a line that starts with "[", ends with "]" and holds a section name
\* between the brackets at its two ends parses to the section of that name,
\* so [[a]] parses to what [a] parses to.
C21_DoubledBrackets ==
    last.op = "parse_line" /\ Content(last.line) # <<>>
        /\ Content(last.line)[1] = "["
        /\ Content(last.line)[Len(Content(last.line))] = "]"
        /\ IsSectionName(TrimBrackets(Content(last.line)))
        => /\ last.ret = Parsed_Section(TrimBrackets(Content(last.line)))
           /\ last.ret = parse_line(HeaderLine(TrimBrackets(Content(last.line))))

\* a line that is neither blank nor a header nor an assignment
BareText(line) ==
    /\ Content(line) # <<>>
    /\ Content(line)[1] # "["
    /\ "=" \notin Range(Content(line))

KeyPunctuation == {"_", ".", ",", ":", "(", ")", "{", "}", "-", "#", "@", "&", "*", "|"}

\* a non-empty text over letters, digits and punctuation that does not start
\* with a digit
IsPunctuatedKey(k) ==
    /\ k # <<>>
    /\ ~is_numeric(k[1])
    /\ \A i \in 1..Len(k) : is_alphanumeric(k[i]) \/ k[i] \in KeyPunctuation

\* the key of parser.rs's test_weird_name
WeirdName == <<"_", ".", ",", ":", "(", ")", "{", "}", "-", "#", "@", "&", "*", "|">>

\* C24: a key may be made of punctuation: a line made of a non-empty key
\* over letters, digits (not in first position) and the characters
\* _.,:(){}-#@&*| followed by " = " and a value parses to the pair of that
\* key, as written, and that value.
C24_PunctuationKey ==
    /\ parse_line(WeirdName \o <<" ", "=", " ", "1", "0", "0">>)
           = Parsed_Key(WeirdName, <<"1", "0", "0">>)
    /\ last.op = "parse_line" /\ IsPunctuatedKey(last.key) /\ IsValue(last.value)
           => last.ret = Parsed_Key(last.key, last.value)

\* a key of two punctuation characters was parsed with a value
C24_Witness ==
    /\ last.op = "parse_line" /\ last.key = <<":", "-">>
    /\ last.ret.tag = "Key" /\ last.ret.key = last.key

\* a value text made of words of letters and digits with blanks around them
IsWords(v) ==
    /\ Trim(v) # <<>>
    /\ \A i \in 1..Len(v) : is_alphanumeric(v[i]) \/ is_whitespace(v[i])

\* the line of parser.rs's test_text_entry and its value
TextEntry ==
    <<"t", "e", "x", "t", "_", "n", "a", "m", "e", " ", "=", " ",
      "h", "e", "l", "l", "o", " ", "w", "o", "r", "l", "d", "!">>

\* C25: whitespace inside a value is kept and whitespace behind it is
\* dropped: a line "key = words" parses to the key and the words with the
\* blanks between them as written and without the blanks around them, no
\* parsed value ends with whitespace, and "text_name = hello world!" gives
\* the value "hello world!".
C25_ValueWhitespace ==
    /\ parse_line(TextEntry) = Parsed_Key(SubSeq(TextEntry, 1, 9), SubSeq(TextEntry, 13, 24))
    /\ last.op = "parse_line" =>
          /\ last.ret.tag = "Key" =>
                /\ last.ret.value # <<>>
                /\ ~is_whitespace(last.ret.value[Len(last.ret.value)])
          /\ IsKey(last.key) /\ IsWords(last.value) =>
                last.ret = Parsed_Key(last.key, Trim(last.value))

\* two words with a blank between and a blank behind them were parsed
C25_Witness ==
    /\ last.op = "parse_line" /\ last.value = <<"a", " ", "a", " ">>
    /\ last.ret.tag = "Key" /\ last.ret.value = <<"a", " ", "a">>

\* the (section, key) pairs of the document
AllPairs == UNION {{<<s, k>> : k \in DOMAIN SectionOf(s).base} : s \in Sections}

\* C23: a loop over iter_mut reaches every (section, key) pair of the
\* document exactly once, in whatever order, and changes values only: each
\* value becomes what the loop body writes on its visit, and the sections,
\* their order, the keys of every section and their order, the selected name
\* and the empty section are what they were.
C23_IterMut ==
    [][last'.op = "iter_mut" =>
         /\ NoDuplicates(last'.visit)
         /\ Range(last'.visit) = AllPairs
         /\ \A n \in 1..Len(last'.visit) :
               ini'.document.base[last'.visit[n][1]].base[last'.visit[n][2]]
                   = apply(last'.closure, n, SectionOf(last'.visit[n][1]).base[last'.visit[n][2]])
         /\ ini'.document.keys = ini.document.keys
         /\ DOMAIN ini'.document.base = Sections
         /\ \A s \in Sections :
               /\ ini'.document.base[s].keys = SectionOf(s).keys
               /\ DOMAIN ini'.document.base[s].base = DOMAIN SectionOf(s).base
         /\ ini'.last_section_name = Selected
         /\ ini'.empty_section = ini.empty_section]_vars

\* a loop that numbers its visits went over two sections and reached the
\* second section, and in it the second key, first
C23_Witness ==
    /\ last.op = "iter_mut" /\ last.closure = "number"
    /\ Len(ini.document.keys) = 2 /\ Len(last.visit) = 3
    /\ last.visit[1][1] = ini.document.keys[2]
    /\ Len(SectionOf(last.visit[1][1]).keys) = 2
    /\ last.visit[1][2] = SectionOf(last.visit[1][1]).keys[2]
    /\ SectionOf(last.visit[1][1]).base[last.visit[1][2]] = <<"1">>

\* C26: remove of a key that the map does not hold returns None and leaves
\* the table and the key order as they are, for the document's map of
\* sections and for every section; a key that was removed is absent, so
\* removing it again, by the operation or by a second erase or clear call,
\* returns None and changes nothing.
C26_RemoveAbsent ==
    /\ [](/\ \A n \in (SectionNames \cup {<<>>}) \ Sections :
                remove(ini.document, n) = [map |-> ini.document, ret |-> None]
          /\ \A s \in Sections :
                /\ \A k \in Keys \ DOMAIN SectionOf(s).base :
                      remove(SectionOf(s), k) = [map |-> SectionOf(s), ret |-> None]
                /\ \A k \in DOMAIN SectionOf(s).base :
                      /\ remove(SectionOf(s), k).ret = Some(SectionOf(s).base[k])
                      /\ remove(remove(SectionOf(s), k).map, k)
                            = [map |-> remove(SectionOf(s), k).map, ret |-> None])
    /\ [][/\ last.op = "erase" /\ last'.op = "erase" /\ last'.key = last.key
             => last'.ret = None /\ ini' = ini
          /\ last.op = "clear" /\ last'.op = "clear"
             => last'.ret = None /\ ini' = ini
          /\ last'.op = "erase" /\ Selected \in Sections
               /\ last'.key \notin DOMAIN SectionOf(Selected).base
             => last'.ret = None /\ ini' = ini
          /\ last'.op = "clear" /\ Selected \notin Sections
             => last'.ret = None /\ ini' = ini]_vars

\* a key was erased from a section that keeps two keys: a second removal of
\* that key finds nothing
C26_Witness ==
    /\ last.op = "erase" /\ last.ret.some
    /\ Len(SectionOf(Selected).keys) = 2
    /\ last.key \notin DOMAIN SectionOf(Selected).base
    /\ remove(SectionOf(Selected), last.key).ret = None

\* a text whose lines are a header, a comment, a pair, an empty line, a
\* line of blanks and a pair, and the same text without lines 2, 4 and 5
CommentedText ==
    Join(<< <<"[", "a", "]">>, <<";", "c">>, <<"x", " ", "=", " ", "1">>,
            <<>>, <<" ", " ">>, <<"y", " ", "=", " ", "2">> >>)

UncommentedText ==
    Join(<< <<"[", "a", "]">>, <<"x", " ", "=", " ", "1">>,
            <<"y", " ", "=", " ", "2">> >>)

\* the last line of a text that gives the key of line i, under the header
\* of line i, a value
LastAssignment(ls, i) ==
    CHOOSE j \in i..Len(ls) :
        /\ parse_line(ls[j]).tag = "Key"
        /\ parse_line(ls[j]).key = parse_line(ls[i]).key
        /\ HeaderAbove(ls, j) = HeaderAbove(ls, i)
        /\ \A n \in (j + 1)..Len(ls) :
              ~(/\ parse_line(ls[n]).tag = "Key"
                /\ parse_line(ls[n]).key = parse_line(ls[i]).key
                /\ HeaderAbove(ls, n) = HeaderAbove(ls, i))

\* C27: in the document parsed from a text, the key of every key-value
\* line is found in the section named by the nearest header above the line
\* (the section of the empty name when there is none), with the value of
\* the last such line; the text without its blank and comment-only lines
\* parses to the same document with the same selected name.
C27_Assembly ==
    /\ from_string(CommentedText) = [from_string(UncommentedText) EXCEPT !.read = 6]
    /\ from_string(CommentedText).tag = "Ok"
    /\ [](last.op = "from_buffer" /\ last.ret.tag = "Ok" =>
            /\ \A i \in 1..Len(lines(last.text)) :
                  parse_line(lines(last.text)[i]).tag = "Key" =>
                      get_raw(ini, HeaderAbove(lines(last.text), i),
                              parse_line(lines(last.text)[i]).key)
                        = Some(parse_line(lines(last.text)[LastAssignment(lines(last.text), i)]).value)
            /\ from_string(Join(SelectSeq(lines(last.text),
                                          LAMBDA l : parse_line(l).tag # "Empty"))).value = ini)

\* a text of four lines was parsed that has a header, a blank line below it
\* and a pair below that, which is in the header's section
C27_Witness ==
    /\ last.op = "from_buffer" /\ last.ret.tag = "Ok"
    /\ Len(lines(last.text)) = 4
    /\ parse_line(lines(last.text)[1]).tag = "Section"
    /\ parse_line(lines(last.text)[2]).tag = "Empty"
    /\ parse_line(lines(last.text)[3]).tag = "Key"
    /\ Len(ini.document.keys) = 1
    /\ ini.document.keys[1] = parse_line(lines(last.text)[1]).name

\* C28: a pair added before any section was named is stored in the section
\* of the empty name: a new document selects the empty name, an item() call
\* made first on it puts its pair there, and the document parsed from a text
\* holds there the pair of every key-value line that has no header above it.
C28_EmptyNamedSection ==
    /\ [](/\ last.op = "new" => Selected = <<>> /\ Sections = {}
          /\ last.op = "from_buffer" /\ last.ret.tag = "Ok" =>
                \A i \in 1..Len(lines(last.text)) :
                    /\ parse_line(lines(last.text)[i]).tag = "Key"
                    /\ \A j \in 1..(i - 1) : parse_line(lines(last.text)[j]).tag # "Section"
                    => /\ <<>> \in Sections
                       /\ Ini_get(ini, <<>>, parse_line(lines(last.text)[i]).key).some)
    /\ [][last.op = "new" /\ last'.op = "item" =>
            /\ ini'.document.keys = << <<>> >>
            /\ Ini_get(ini', <<>>, last'.name) = Some(last'.value)]_vars

\* a text with a pair above its first header was parsed: the document holds
\* the section of the empty name in front of the named one
C28_Witness ==
    /\ last.op = "from_buffer" /\ last.ret.tag = "Ok"
    /\ Len(ini.document.keys) = 2
    /\ ini.document.keys[1] = <<>>
    /\ SectionOf(<<>>).keys # <<>>

\* C29: the section handed out for names that the document lacks is empty
\* in every reachable state: no section, item, items, clear, erase or
\* iter_mut call and no parsing gives empty_section a key, so section_iter
\* on an absent name yields nothing.
C29_EmptySection ==
    /\ ini.empty_section.keys = <<>>
    /\ DOMAIN ini.empty_section.base = {}
    /\ last.op = "from_buffer" /\ last.ret.tag = "Ok" =>
          last.ret.value.empty_section = new
    /\ \A n \in (SectionNames \cup {<<>>}) \ Sections : section_iter(ini, n) = <<>>

\* a loop over iter_mut rewrote a document that was parsed from a text and
\* then went through an erase or clear call
C29_Witness ==
    /\ last.op = "iter_mut" /\ how.parsed /\ how.removed
    /\ last.visit # <<>>
    /\ ini.empty_section = new

\* iter() goes through all of keys(): one pair per key, in the order of
\* keys(), each with the value that get gives for its key
IterIsKeys(m) ==
    /\ Len(iter(m)) = Len(keys(m))
    /\ \A i \in 1..Len(keys(m)) :
          /\ i <= Len(iter(m))
          /\ iter(m)[i].key = keys(m)[i]
          /\ Some(iter(m)[i].value) = get(m, keys(m)[i])

\* C30: in every reachable state iter() does not stop early, neither over
\* the sections of the document nor over the entries of a section, nor in
\* section_iter: it yields one pair per element of keys(), in the order of
\* keys(), and the value paired with a key is the one get returns for it.
C30_IterIsKeys ==
    /\ IterIsKeys(ini.document)
    /\ \A s \in Sections :
          /\ IterIsKeys(SectionOf(s))
          /\ section_iter(ini, s) = iter(SectionOf(s))
          /\ \A i \in 1..Len(section_iter(ini, s)) :
                Some(section_iter(ini, s)[i].value)
                    = Ini_get(ini, s, section_iter(ini, s)[i].key)

\* keys were added to and erased from a section that still holds two, in an
\* order other than the order of their addition
C30_Witness ==
    /\ last.op = "erase" /\ last.ret.some
    /\ Len(iter(SectionOf(Selected))) = 2
    /\ IterKeys(SectionOf(Selected)) # added.keys[Selected]
    /\ Len(iter(ini.document)) = 1

\* the orders in which the tables of the sections may enumerate, one order
\* per section
SectionHashers ==
    {hs \in [Sections -> UNION {iter_mut(SectionOf(s)) : s \in Sections}] :
        \A s \in Sections : hs[s] \in iter_mut(SectionOf(s))}

\* C31: serialization does not depend on the order in which the hash tables
\* enumerate their entries: the text that to_buffer returned, and the text of
\* a document just parsed, is the text that Display produces under every
\* enumeration order of the document's table and of every section's table.
C31_Deterministic ==
    last.op \in {"to_buffer", "from_buffer"} /\ Live =>
        \A hd \in iter_mut(ini.document) : \A hs \in SectionHashers :
            /\ to_string_hashed(ini, hd, hs) = to_buffer(ini)
            /\ last.op = "to_buffer" => to_string_hashed(ini, hd, hs) = last.ret

\* to_buffer was called on a document of two sections, one of them with two
\* keys, after a removal: its tables can enumerate in four orders
C31_Witness ==
    /\ last.op = "to_buffer" /\ how.removed
    /\ Len(ini.document.keys) = 2
    /\ \E s \in Sections : Len(SectionOf(s).keys) = 2
    /\ Cardinality(SectionHashers) = 2

NoEmptySection(self) ==
    \A s \in DOMAIN self.document.base : self.document.base[s].keys # <<>>

\* C32: a new document has no section, and a document whose sections all
\* hold a key still has only sections that hold a key after it is replaced by
\* a parsed text or after a section, item, items, item_vec or clear call, so
\* that no document reached without erase has a section with no key.
C32_NoEmptySection ==
    /\ NoEmptySection(Ini_new)
    /\ ini = Ini_new
    /\ [][NoEmptySection(ini)
             /\ last'.op \in {"from_buffer", "section", "item", "items", "item_vec", "clear"}
          => NoEmptySection(ini')]_vars

\* a text with keys under two headers was parsed and the selected section
\* cleared, which is the only call so far: the other section is left
C32_Witness ==
    /\ how.parsed /\ nops = 1
    /\ last.op = "clear" /\ last.ret.some
    /\ Sections # {} /\ NoEmptySection(ini)
\* C33: erase removes no section: the document has the same sections in the
\* same order after it, and when the erased key was the only key of the
\* selected section, that section is still in the document, with no key;
\* iteration over the document yields it at its place, with no entry, and
\* the serialized text has its header line.
C33_EraseKeepsSection ==
    [][last'.op = "erase" =>
         /\ DOMAIN ini'.document.base = Sections
         /\ ini'.document.keys = ini.document.keys
         /\ Selected \in Sections /\ SectionOf(Selected).keys = <<last'.key>> =>
               /\ last'.ret.some
               /\ Selected \in DOMAIN ini'.document.base
               /\ ini'.document.base[Selected] = new
               /\ Len(Ini_iter(ini')) = Len(Ini_iter(ini))
               /\ \A i \in 1..Len(Ini_iter(ini)) :
                     /\ Ini_iter(ini')[i].name = Ini_iter(ini)[i].name
                     /\ Ini_iter(ini)[i].name = Selected => Ini_iter(ini')[i].section = <<>>
               /\ \E i \in 1..Len(Ini_iter(ini')) : Ini_iter(ini')[i].name = Selected
               /\ HeaderLine(Selected) \in Range(lines(to_buffer(ini')))]_vars

\* the only key of the selected section was erased, and the document has
\* another section, which holds a key
C33_Witness ==
    /\ last.op = "erase" /\ last.ret.some
    /\ Selected \in Sections /\ SectionOf(Selected) = new
    /\ \E s \in Sections \ {Selected} : SectionOf(s).keys # <<>>
    /\ HeaderLine(Selected) \in Range(lines(to_buffer(ini)))
====
